---- MODULE Spec2Model ----
(***************************************************************************)
(* Transaction-scoped external-call aggregator of the observability        *)
(* package: the node-fetch tracker (node-fetch-tracing.ts, kept here as     *)
(* src/unnamed/part_003), the axios tracker (src/src/axios-external-        *)
(* tracing.ts) and the observability service they both call                 *)
(* (observability.service.factory.ts, kept as src/unnamed/part_002).        *)
(*                                                                         *)
(* Each module owns one externalCallsMap and one cleanup timer; the two     *)
(* share the clock and the tracing backend.  Every handler is synchronous   *)
(* between the start of a call and its settle, so a handler is one action.  *)
(***************************************************************************)
EXTENDS Integers, Sequences, FiniteSets, TLC

(***************************************************************************)
(* Bounds of the model                                                     *)
(***************************************************************************)
MaxCalls == 2
MaxShapedCalls == 1
MaxReads == 1
MaxSweeps == 2
ClockStep == 300000
LoadTime == 1000
MaxRetryCalls == 4
MaxMutations == 1
MaxInits == 3
MaxRequests == 2
MaxRequestIds == 2
MaxEvents == 4
MaxRegisters == 3
MaxFields == 2
MaxDepth == 2

(***************************************************************************)
(* Program constants                                                       *)
(***************************************************************************)
SweepInterval == 5 * 60 * 1000
TTL == 5 * 60 * 1000
InitialSavedIndex == -1
\* the default of the option maxLen of scrub
MaxLen == 400

Paths == {"fetch", "axios"}
TxIds == {"tx1"}
Undef == "undefined"
Keys == TxIds \cup {Undef}
\* what the backend's getTransaction() hands back: nothing, a handle that
\* carries no id, or a handle with an id
CurTx == {"none", "noid"} \cup TxIds
Absent == "<absent>"
Horizon == LoadTime + MaxSweeps * SweepInterval

Min(a, b) == IF a <= b THEN a ELSE b

(***************************************************************************)
(* Inputs: what the underlying HTTP client does                            *)
(***************************************************************************)
Outcome(kind, status, statusText, message, isError, hasResponse, hasConfig) ==
    [kind |-> kind, status |-> status, statusText |-> statusText,
     message |-> message, isError |-> isError, hasResponse |-> hasResponse,
     hasConfig |-> hasConfig]

\* node-fetch resolves with any status and rejects with a thrown Error
FetchOutcomes ==
    { Outcome("resolve", 200, "OK", "", TRUE, TRUE, TRUE),
      Outcome("resolve", 304, "", "", TRUE, TRUE, TRUE),
      Outcome("reject", 0, "", "ECONNREFUSED", TRUE, FALSE, TRUE),
      Outcome("reject", 0, "", "", TRUE, FALSE, TRUE) }

\* axios resolves when validateStatus accepts the status and rejects with an
\* error that may carry a response and a config
AxiosOutcomes ==
    { Outcome("resolve", 200, "OK", "", TRUE, TRUE, TRUE),
      Outcome("resolve", 404, "", "", TRUE, TRUE, TRUE),
      Outcome("reject", 304, "", "Request failed with status code 304",
              TRUE, TRUE, TRUE),
      Outcome("reject", 500, "", "", TRUE, TRUE, TRUE),
      Outcome("reject", 0, "", "Network Error", TRUE, FALSE, TRUE),
      Outcome("reject", 0, "", "interceptor failed", TRUE, FALSE, FALSE) }

NoOutcome ==
    [kind |-> "none", status |-> 0, statusText |-> "", message |-> "",
     isError |-> TRUE, hasResponse |-> FALSE, hasConfig |-> TRUE]

\* the methods a caller supplies ("" stands for no method supplied)
Methods == {"", "post"}
ToUpperCase(m) == IF m = "post" THEN "POST" ELSE IF m = "get" THEN "GET" ELSE m
\* the url of the k-th call started: every call has its own url
UrlOf(id) == id

VARIABLES
    uses,         \* the tracker module the application calls in this run
    installed,    \* require('node-fetch') succeeds in this process
    handle,       \* the array a caller of the getter has kept a reference to
    axiosInstalled,                   \* require('axios') succeeds
    axiosTracingInitialized,          \* the flag of axios-tracing
    axiosExternalTracingInitialized,  \* the flag of axios-external-tracing
    interceptors, \* axios.interceptors: who registered each handler, in order
    initLog,      \* initLog[m]: what each call of the initializer of m did
    handled,      \* what the request middleware did for each request so far
    mongoBuild,   \* which source of the MongoDB monitoring the package ships
    monitoringInstalled,  \* isInstalled, the flag of the MongoDB monitoring
    listeners,    \* client.on(...): the client and event of each listener
    registerLog,  \* what each call of registerMongoClient did
    commandTracking,  \* commandTracking[r]: the entry stored for requestId r
    spans,        \* the span attributes handed to the service, in order
    pending,      \* requestIds of commands started and not yet settled
    eventCount,   \* number of driver events delivered so far
    scrubInput,   \* the value scrub was called with, as it was at the call
    scrubArg,     \* the same object as the caller sees it now
    scrubResult,  \* what scrub returned, NotCalled before the call
    now,          \* Date.now()
    store,        \* store[p][k]: the entry of externalCallsMap of module p
    sweeperOn,    \* sweeperOn[p]: the cleanup interval of module p is armed
    nextSweep,    \* nextSweep[p]: when that interval fires next
    inflight,     \* calls started and not settled
    started,      \* number of calls started so far
    reads,        \* number of getter reads so far
    emitted,      \* emitted[p][k]: positional indices handed to the sink so far
    tracked,      \* tracked[p][k]: number of calls whose record was appended
    epochLog,     \* epochLog[p][k]: urls appended since the bucket was created
    last          \* what the latest step did

vars == <<uses, installed, handle, axiosInstalled, axiosTracingInitialized,
          axiosExternalTracingInitialized, interceptors, initLog, handled,
          mongoBuild, monitoringInstalled, listeners, registerLog,
          commandTracking,
          spans, pending, eventCount, scrubInput, scrubArg, scrubResult,
          now, store,
          sweeperOn, nextSweep, inflight, started, reads,
          emitted, tracked, epochLog, last>>

NoBucket == [present |-> FALSE, calls |-> <<>>, lastAccess |-> 0,
             lastSavedIndex |-> InitialSavedIndex]
NoRollup == [present |-> FALSE, callCount |-> 0, totalDuration |-> 0,
             failedCount |-> 0, accepted |-> FALSE]
NoDelivery == [kind |-> "none", src |-> "none", payload |-> NoOutcome]

\* last describes the settle, flush or removal that has just happened; it is
\* Quiet after any other step.  at: the key whose stored bucket received the
\* record; removed: the buckets the step deleted and how long each had been
\* idle
Quiet ==
    [op |-> "other", path |-> "fetch", id |-> 0, method |-> "", cur |-> "none",
     bad |-> FALSE, seg |-> "ok", und |-> NoOutcome, del |-> NoDelivery,
     at |-> "<detached>",
     groups |-> <<>>, rollup |-> NoRollup, flushed |-> FALSE, removed |-> {}]

\* ref: the stored array the reference points to, Detached for a throwaway
\* array, "none" when no reference is held; seen: its content when it was
\* returned; muts: how often the holder has changed it
NoHandle == [ref |-> "none", seen |-> <<>>, muts |-> 0]

\* the application calls tracker module p in this run
Uses(p) == uses = p \/ uses = "both"

\* the variables of the axios initializers and of the request middleware
scrubVars == <<scrubInput, scrubArg, scrubResult>>

mongoVars == <<mongoBuild, monitoringInstalled, listeners, registerLog,
               commandTracking, spans, pending, eventCount>>

setup == <<axiosInstalled, axiosTracingInitialized,
           axiosExternalTracingInitialized, interceptors, initLog, handled,
           mongoVars, scrubVars>>

\* the two sources of the monitoring: src/mongo-tracing.ts, whose preview is
\* the filter as it came, and the copy whose preview goes through scrub
MongoBuilds == {"plain", "scrubbing"}
RequestIds == 1..MaxRequestIds
NoPreview == [shape |-> "none", value |-> "none"]
NoEntry == [present |-> FALSE, commandName |-> "", preview |-> NoPreview]

\* JavaScript values as scrub meets them: t is the type, s and n the text
\* and length of a string, cut whether it ends in the ellipsis scrub adds,
\* kv the own enumerable properties of an object or array in key order;
\* keys are sequences of characters
Value(t, s, n, cut, kv) == [t |-> t, s |-> s, n |-> n, cut |-> cut, kv |-> kv]
Atom(t) == Value(t, "", 0, FALSE, <<>>)
String(s, n) == Value("string", s, n, FALSE, <<>>)
Null == Atom("null")
Undefined == Atom("undefined")
BigInt == Atom("bigint")
EmptyObject == Value("object", "", 0, FALSE, <<>>)
NotCalled == Atom("not called")

\* scrub has not been called; the caller holds one of the inputs
ScrubLoaded(inputs) ==
    /\ scrubInput \in inputs
    /\ scrubArg = scrubInput
    /\ scrubResult = NotCalled

\* the MongoDB monitoring once its module is loaded
MongoLoaded(builds) ==
    /\ mongoBuild \in builds
    /\ monitoringInstalled = FALSE
    /\ listeners = <<>>
    /\ registerLog = <<>>
    /\ commandTracking = [r \in RequestIds |-> NoEntry]
    /\ spans = <<>>
    /\ pending = {}
    /\ eventCount = 0

InitModules == {"tracing", "external"}
NoInterceptors == [request |-> <<>>, response |-> <<>>]
NoInitLog == [m \in InitModules |-> <<>>]

\* the handlers initializeAxiosExternalTracing registers, lines 157-196
ExternalInterceptors(handlers) ==
    [request |-> Append(handlers.request, "external"),
     response |-> Append(handlers.response, "external")]

\* the tracker state once the modules are loaded
TrackerLoaded ==
    /\ handle = NoHandle
    /\ now = LoadTime
    /\ store = [p \in Paths |-> [k \in Keys |-> NoBucket]]
    /\ sweeperOn = [p \in Paths |-> TRUE]
    /\ nextSweep = [p \in Paths |-> LoadTime + SweepInterval]
    /\ inflight = {}
    /\ started = 0
    /\ reads = 0
    /\ emitted = [p \in Paths |-> [k \in Keys |-> {}]]
    /\ tracked = [p \in Paths |-> [k \in Keys |-> 0]]
    /\ epochLog = [p \in Paths |-> [k \in Keys |-> <<>>]]
    /\ handled = <<>>
    /\ last = Quiet

\* all modules loaded, the MongoDB monitoring of src/mongo-tracing.ts
Loaded == TrackerLoaded /\ MongoLoaded({"plain"}) /\ ScrubLoaded({EmptyObject})

\* an application that tracks axios calls has axios and has called
\* initializeAxiosExternalTracing() at startup
Init ==
    /\ uses \in Paths
    /\ installed \in (IF uses = "fetch" THEN BOOLEAN ELSE {TRUE})
    /\ axiosInstalled = (uses = "axios")
    /\ axiosTracingInitialized = FALSE
    /\ axiosExternalTracingInitialized = (uses = "axios")
    /\ interceptors = IF uses = "axios"
                      THEN ExternalInterceptors(NoInterceptors)
                      ELSE NoInterceptors
    /\ initLog = NoInitLog
    /\ Loaded

(***************************************************************************)
(* JavaScript helpers                                                      *)
(***************************************************************************)
\* truthiness of a string or of a number, as || and && test it
TruthyStr(s) == s # "" /\ s # Absent
TruthyNum(n) == n # 0
\* response.ok of the fetch standard
ResponseOk(status) == status >= 200 /\ status <= 299
RECURSIVE SumDurations(_)
SumDurations(calls) ==
    IF calls = <<>> THEN 0
    ELSE Head(calls).duration + SumDurations(Tail(calls))
FailedCount(calls) == Cardinality({i \in 1..Len(calls) : ~calls[i].success})
Detached == "<detached>"
TxKey(cur) == IF cur = "noid" THEN Undef ELSE cur
CurOf(k) == IF k = Undef THEN "noid" ELSE k

(***************************************************************************)
(* observability.service.factory.ts: NewRelicObservabilityService          *)
(***************************************************************************)
\* getTransaction(): the agent's answer, unguarded
GetTransaction(cur, agentThrows) == [threw |-> agentThrows, val |-> cur]
\* addCustomAttributes(): guarded, an agent failure loses the attributes
AddCustomAttributes(agentThrows) == [threw |-> FALSE, accepted |-> ~agentThrows]
\* variant: noticeError() without its try/catch
NoticeErrorUnguarded(agentThrows) == [threw |-> agentThrows]
\* noticeError(): guarded
NoticeError(agentThrows) == [threw |-> FALSE]

(***************************************************************************)
(* getTransactionCalls(): the same code in both modules                    *)
(***************************************************************************)
NewBucket(t) == [present |-> TRUE, calls |-> <<>>, lastAccess |-> t,
                 lastSavedIndex |-> InitialSavedIndex]

\* variant: getTransactionCalls() without its try/catch
GetTransactionCallsUnguarded(map, cur, agentThrows, t) ==
    LET r == GetTransaction(cur, agentThrows) IN
    IF r.threw \/ r.val = "none"
    THEN [threw |-> r.threw, map |-> map, ref |-> Detached, calls |-> <<>>]
    ELSE LET txId == TxKey(r.val)
             m1 == IF ~map[txId].present
                   THEN [map EXCEPT ![txId] = NewBucket(t)] ELSE map
             m2 == [m1 EXCEPT ![txId].lastAccess = t]
         IN [threw |-> FALSE, map |-> m2, ref |-> txId,
             calls |-> m2[txId].calls]

\* variant: transaction?.id with no check for a missing transaction
GetTransactionCallsNoCheck(map, cur, agentThrows, t) ==
    LET r == GetTransaction(cur, agentThrows) IN
    IF r.threw
    THEN [threw |-> FALSE, map |-> map, ref |-> Detached, calls |-> <<>>]
    ELSE LET txId == IF r.val = "none" THEN Undef ELSE TxKey(r.val)
             m1 == IF ~map[txId].present
                   THEN [map EXCEPT ![txId] = NewBucket(t)] ELSE map
             m2 == [m1 EXCEPT ![txId].lastAccess = t]
         IN [threw |-> FALSE, map |-> m2, ref |-> txId,
             calls |-> m2[txId].calls]

\* ref names the stored array that is returned, Detached for a fresh []
GetTransactionCalls(map, cur, agentThrows, t) ==
    LET r == GetTransaction(cur, agentThrows) IN
    IF r.threw \/ r.val = "none"
    THEN [threw |-> FALSE, map |-> map, ref |-> Detached, calls |-> <<>>]
    ELSE LET txId == TxKey(r.val)
             m1 == IF ~map[txId].present
                   THEN [map EXCEPT ![txId] = NewBucket(t)] ELSE map
             m2 == [m1 EXCEPT ![txId].lastAccess = t]
         IN [threw |-> FALSE, map |-> m2, ref |-> txId,
             calls |-> m2[txId].calls]

\* variant: calls.unshift(callData)
PushFront(map, ref, calls, callData) ==
    [map |-> IF ref = Detached THEN map
             ELSE [map EXCEPT ![ref].calls = <<callData>> \o @],
     calls |-> <<callData>> \o calls]

\* calls.push(callData) on the array getTransactionCalls returned
Push(map, ref, calls, callData) ==
    [map |-> IF ref = Detached THEN map
             ELSE [map EXCEPT ![ref].calls = Append(@, callData)],
     calls |-> Append(calls, callData)]

(***************************************************************************)
(* saveExternalCalls(): one attribute group per call not yet saved         *)
(***************************************************************************)
Unsaved == [threw |-> FALSE, groups |-> <<>>, rollup |-> NoRollup,
            flushed |-> FALSE]

\* the attribute group of calls[i], i counted from 0 as the code does
FetchGroup(calls, i, accepted) ==
    LET call == calls[i + 1] IN
    [prefix |-> "external", index |-> i + 1, url |-> call.url,
     method |-> call.method, statusCode |-> call.statusCode,
     duration |-> call.duration, success |-> call.success,
     error |-> IF ~call.success /\ TruthyStr(call.error)
               THEN call.error ELSE Absent,
     accepted |-> accepted]

AxiosGroup(calls, i, accepted) ==
    LET call == calls[i + 1] IN
    [prefix |-> "externalCall", index |-> i + 1, url |-> call.url,
     method |-> call.method, statusCode |-> call.statusCode,
     duration |-> call.duration, success |-> call.success,
     error |-> IF TruthyStr(call.error) THEN call.error ELSE Absent,
     accepted |-> accepted]

Rollup(calls, accepted) ==
    [present |-> TRUE, callCount |-> Len(calls),
     totalDuration |-> SumDurations(calls),
     failedCount |-> FailedCount(calls), accepted |-> accepted]

\* variant: the loop starts at 0 whatever was saved
FirstUnsavedFromZero(lastSavedIndex) == 0

\* the loop: for (let i = lastSavedIndex + 1; i < calls.length; i++)
FirstUnsaved(lastSavedIndex) == lastSavedIndex + 1

\* variant: the saved index is never advanced
SavedIndexStale(calls) == InitialSavedIndex

\* data.lastSavedIndex = calls.length - 1
SavedIndexAfter(calls) == Len(calls) - 1

SaveExternalCallsFetch(map, calls, cur, agentThrows, sinkThrows) ==
    IF Len(calls) = 0 THEN Unsaved @@ [map |-> map]
    ELSE
    LET r == GetTransaction(cur, agentThrows) IN
    IF r.threw \/ r.val = "none" THEN Unsaved @@ [map |-> map]
    ELSE
    LET txId == TxKey(r.val) IN
    IF ~map[txId].present THEN Unsaved @@ [map |-> map]
    ELSE
    LET first == FirstUnsaved(map[txId].lastSavedIndex)
        sink == AddCustomAttributes(sinkThrows)
        count == IF Len(calls) > first THEN Len(calls) - first ELSE 0
    IN IF sink.threw
       THEN \* the catch of saveExternalCalls: the index is not advanced
            [threw |-> FALSE,
             groups |-> [j \in 1..Min(count, 1) |->
                           FetchGroup(calls, first + j - 1, FALSE)],
             rollup |-> NoRollup, flushed |-> FALSE, map |-> map]
       ELSE [threw |-> FALSE,
             groups |-> [j \in 1..count |->
                           FetchGroup(calls, first + j - 1, sink.accepted)],
             rollup |-> Rollup(calls, sink.accepted),
             flushed |-> TRUE,
             map |-> [map EXCEPT ![txId].lastSavedIndex =
                                 SavedIndexAfter(calls)]]

SaveExternalCallsAxios(map, calls, cur, agentThrows, sinkThrows) ==
    IF Len(calls) = 0 THEN Unsaved @@ [map |-> map]
    ELSE
    LET r == GetTransaction(cur, agentThrows) IN
    IF r.threw \/ r.val = "none" THEN Unsaved @@ [map |-> map]
    ELSE
    LET txId == TxKey(r.val) IN
    IF ~map[txId].present THEN Unsaved @@ [map |-> map]
    ELSE
    LET first == FirstUnsaved(map[txId].lastSavedIndex)
        sink == AddCustomAttributes(sinkThrows)
        count == IF Len(calls) > first THEN Len(calls) - first ELSE 0
    IN IF sink.threw
       THEN \* the catch of saveExternalCalls: the index is not advanced
            [threw |-> FALSE,
             groups |-> [j \in 1..Min(count, 1) |->
                           AxiosGroup(calls, first + j - 1, FALSE)],
             rollup |-> NoRollup, flushed |-> FALSE, map |-> map]
       ELSE [threw |-> FALSE,
             groups |-> [j \in 1..count |->
                           AxiosGroup(calls, first + j - 1, sink.accepted)],
             rollup |-> NoRollup,
             flushed |-> TRUE,
             map |-> [map EXCEPT ![txId].lastSavedIndex =
                                 SavedIndexAfter(calls)]]

(***************************************************************************)
(* trackedFetch(): the settle of one call, part_003 lines 188-238          *)
(***************************************************************************)
HttpErrorText(status, statusText) ==
    "HTTP " \o ToString(status) \o " "
      \o (IF TruthyStr(statusText) THEN statusText ELSE "Error")
\* error instanceof Error ? error.message : String(error)
ThrownText(o) == IF o.isError THEN o.message ELSE "[object Object]"
MethodOrGet(m) == IF TruthyStr(m) THEN m ELSE "GET"

FetchSuccessData(id, m, o, duration) ==
    [url |-> UrlOf(id), method |-> MethodOrGet(m), statusCode |-> o.status,
     duration |-> duration, success |-> ResponseOk(o.status),
     error |-> IF ~ResponseOk(o.status)
               THEN HttpErrorText(o.status, o.statusText) ELSE Absent]

FetchFailureData(id, m, o, duration) ==
    [url |-> UrlOf(id), method |-> MethodOrGet(m), statusCode |-> 0,
     duration |-> duration, success |-> FALSE,
     error |-> ThrownText(o)]

\* getTransactionCalls, push, saveExternalCalls: what both branches do
\* with the call data they built
RecordAndSave(map, callData, in, t) ==
    LET g == GetTransactionCalls(map, in.cur, in.thA, t)
        p == Push(g.map, g.ref, g.calls, callData)
        s == SaveExternalCallsFetch(p.map, p.calls, in.cur, in.thF, in.sink)
    IN [threw |-> g.threw \/ s.threw, map |-> s.map, ref |-> g.ref,
        groups |-> s.groups, rollup |-> s.rollup, flushed |-> s.flushed,
        appended |-> IF g.threw THEN 0 ELSE 1]

Delivered(kind, src, o) == [kind |-> kind, src |-> src, payload |-> o]

\* variant: trackedFetch goes on without node-fetch
RequireNodeFetchIgnored(isInstalled) == [threw |-> FALSE]

\* fetch = require('node-fetch'), lines 176-184
RequireNodeFetch(isInstalled) == [threw |-> ~isInstalled]

TrackedFetchSettle(map, c, m, o, in, t) ==
    LET duration == t - c.start
        ok == IF o.kind = "resolve"
              THEN RecordAndSave(map, FetchSuccessData(c.id, m, o, duration),
                                 in, t)
              ELSE RecordAndSave(map, FetchFailureData(c.id, m, o, duration),
                                 in, t)
    IN
    IF o.kind = "resolve" /\ ~ok.threw
    THEN ok @@ [del |-> Delivered("return", "underlying", o)]
    ELSE IF o.kind = "resolve"
    THEN \* the try block threw after the response arrived: the catch block
         \* records the tracking error as a failed call and throws it
         LET again == RecordAndSave(ok.map,
                          FetchFailureData(c.id, m, o, duration), in, t)
             n == NoticeError(in.notice)
         IN [again EXCEPT !.groups = ok.groups \o again.groups,
                          !.appended = ok.appended + again.appended]
            @@ [del |-> Delivered("throw", "tracking", o)]
    ELSE LET n == NoticeError(in.notice)
         IN ok @@ [del |-> IF ok.threw \/ n.threw
                           THEN Delivered("throw", "tracking", o)
                           ELSE Delivered("throw", "underlying", o)]

(***************************************************************************)
(* axios-external-tracing.ts: the interceptors and captureAxiosCall        *)
(***************************************************************************)
\* request interceptor, lines 157-174: the start time is stored unless the
\* guarded block threw before reaching it; 0 stands for no start time
RequestInterceptor(agentThrows, t) == IF agentThrows THEN 0 ELSE t

\* success: statusCode >= 200 && statusCode < 400
AxiosSuccess(statusCode) == statusCode >= 200 /\ statusCode < 400

AxiosCallData(id, m, statusCode, errorMessage, duration) ==
    [url |-> UrlOf(id), method |-> ToUpperCase(MethodOrGet(m)),
     statusCode |-> statusCode, duration |-> duration,
     success |-> AxiosSuccess(statusCode),
     error |-> IF TruthyStr(errorMessage) THEN errorMessage ELSE Absent]

\* startExternalSegment(...) throws, or segment.end() does
SegmentThrows(seg) == seg \in {"throws", "endThrows"}

NotCaptured(map) ==
    [threw |-> FALSE, map |-> map, ref |-> Detached, groups |-> <<>>,
     rollup |-> NoRollup, flushed |-> FALSE, appended |-> 0, segments |-> 0]

\* captureAxiosCall with the segment opened after the record is stored
CaptureAxiosCallSegmentLast(map, c, m, o, statusCode, errorMessage, in, t) ==
    IF ~o.hasConfig THEN NotCaptured(map)
    ELSE
    LET startTime == IF TruthyNum(c.start) THEN c.start ELSE t
        duration == t - startTime
        tx == GetTransaction(in.cur, in.thS)
    IN
    IF tx.threw THEN NotCaptured(map)
    ELSE
    LET g == GetTransactionCalls(map, in.cur, in.thA, t)
        p == Push(g.map, g.ref, g.calls,
                  AxiosCallData(c.id, m, statusCode, errorMessage, duration))
        s == SaveExternalCallsAxios(p.map, p.calls, in.cur, in.thF, in.sink)
    IN [threw |-> FALSE, map |-> s.map, ref |-> g.ref, groups |-> s.groups,
        rollup |-> s.rollup, flushed |-> s.flushed, appended |-> 1,
        segments |-> IF tx.val # "none" /\ in.seg = "ok" THEN 1 ELSE 0]

\* lines 208-255; in.seg says what transaction.startExternalSegment is:
\* "missing", "ok", "throws" (the call throws) or "endThrows" (segment.end()
\* throws)
CaptureAxiosCall(map, c, m, o, statusCode, errorMessage, in, t) ==
    IF ~o.hasConfig THEN NotCaptured(map)
    ELSE
    LET startTime == IF TruthyNum(c.start) THEN c.start ELSE t
        duration == t - startTime
        tx == GetTransaction(in.cur, in.thS)
    IN
    IF tx.threw THEN NotCaptured(map)
    ELSE IF tx.val # "none" /\ SegmentThrows(in.seg) THEN NotCaptured(map)
    ELSE
    LET g == GetTransactionCalls(map, in.cur, in.thA, t)
        p == Push(g.map, g.ref, g.calls,
                  AxiosCallData(c.id, m, statusCode, errorMessage, duration))
        s == SaveExternalCallsAxios(p.map, p.calls, in.cur, in.thF, in.sink)
    IN [threw |-> FALSE, map |-> s.map, ref |-> g.ref, groups |-> s.groups,
        rollup |-> s.rollup, flushed |-> s.flushed, appended |-> 1,
        segments |-> IF tx.val # "none" /\ in.seg = "ok" THEN 1 ELSE 0]

\* response interceptors, lines 177-196
AxiosSettle(map, c, m, o, in, t) ==
    IF o.kind = "resolve"
    THEN CaptureAxiosCall(map, c, m, o, o.status, Absent, in, t)
         @@ [del |-> Delivered("return", "underlying", o)]
    ELSE LET statusCode == IF o.hasResponse /\ TruthyNum(o.status)
                           THEN o.status ELSE 0
             errorMessage == IF TruthyStr(o.message) THEN o.message
                             ELSE "Unknown error"
         IN CaptureAxiosCall(map, c, m, o, statusCode, errorMessage, in, t)
            @@ [del |-> Delivered("throw", "underlying", o)]

(***************************************************************************)
(* The cleanup timer and the test hooks                                    *)
(***************************************************************************)
\* variants: <= for <, and a cutoff of two TTLs
ExpiredInclusive(bucket, t) == bucket.lastAccess <= t - TTL
ExpiredLate(bucket, t) == bucket.lastAccess < t - 2 * TTL

\* if (data.lastAccess < fiveMinutesAgo) externalCallsMap.delete(txId)
Expired(bucket, t) == bucket.lastAccess < t - TTL

\* externalCallsMap.entries() when the loop starts: the keys of the map in
\* some order
Entries(map) ==
    LET keys == {k \in Keys : map[k].present}
    IN CHOOSE order \in [1..Cardinality(keys) -> keys] :
          \A i, j \in 1..Cardinality(keys) : order[i] = order[j] => i = j

\* the loop as it would run over an array that shrinks under its index: the
\* entry after a deleted one is never visited
RECURSIVE SweepFromSkipping(_, _, _, _)
SweepFromSkipping(map, order, i, t) ==
    IF i > Len(order) THEN map
    ELSE IF Expired(map[order[i]], t)
    THEN SweepFromSkipping([map EXCEPT ![order[i]] = NoBucket], order,
                           i + 2, t)
    ELSE SweepFromSkipping(map, order, i + 1, t)

\* for (const [txId, data] of externalCallsMap.entries()) from entry i on:
\* a Map iterator steps to the next entry whether or not the current one
\* was deleted
RECURSIVE SweepFrom(_, _, _, _)
SweepFrom(map, order, i, t) ==
    IF i > Len(order) THEN map
    ELSE IF Expired(map[order[i]], t)
    THEN SweepFrom([map EXCEPT ![order[i]] = NoBucket], order, i + 1, t)
    ELSE SweepFrom(map, order, i + 1, t)

CleanupTick(map, t) == SweepFrom(map, Entries(map), 1, t)

ClearMap(map) == [k \in Keys |-> NoBucket]

\* variant: the stop hook leaves the timer armed
ClearIntervalKeeps(armed) == armed

\* clearInterval(cleanupInterval): the timer is disarmed, armed or not
ClearInterval(armed) == FALSE

(***************************************************************************)
(* The axios initializers (axios-tracing, axios-external-tracing)          *)
(***************************************************************************)
\* require('axios')
RequireAxios(isInstalled) == [threw |-> ~isInstalled]

\* the handler initializeAxiosTracing registers, lines 47-63
TracingInterceptors(handlers) ==
    [handlers EXCEPT !.request = Append(@, "tracing")]

\* initializeAxiosTracing without the flag test
InitializeAxiosTracingUnguarded(flag, handlers, isInstalled) ==
    IF RequireAxios(isInstalled).threw
    THEN [threw |-> FALSE, did |-> "absent", flag |-> flag,
          handlers |-> handlers]
    ELSE [threw |-> FALSE, did |-> "registered", flag |-> TRUE,
          handlers |-> TracingInterceptors(handlers)]

\* initializeAxiosTracing(): did is "skipped" for the early return,
\* "absent" for the catch block, "registered" otherwise
InitializeAxiosTracing(flag, handlers, isInstalled) ==
    IF flag
    THEN [threw |-> FALSE, did |-> "skipped", flag |-> flag,
          handlers |-> handlers]
    ELSE IF RequireAxios(isInstalled).threw
    THEN [threw |-> FALSE, did |-> "absent", flag |-> flag,
          handlers |-> handlers]
    ELSE [threw |-> FALSE, did |-> "registered", flag |-> TRUE,
          handlers |-> TracingInterceptors(handlers)]

\* initializeAxiosExternalTracing with the flag set ahead of the try block
InitializeAxiosExternalTracingFlagFirst(flag, handlers, isInstalled) ==
    IF flag
    THEN [threw |-> FALSE, did |-> "skipped", flag |-> flag,
          handlers |-> handlers]
    ELSE IF RequireAxios(isInstalled).threw
    THEN [threw |-> FALSE, did |-> "absent", flag |-> TRUE,
          handlers |-> handlers]
    ELSE [threw |-> FALSE, did |-> "registered", flag |-> TRUE,
          handlers |-> ExternalInterceptors(handlers)]

\* initializeAxiosExternalTracing()
InitializeAxiosExternalTracing(flag, handlers, isInstalled) ==
    IF flag
    THEN [threw |-> FALSE, did |-> "skipped", flag |-> flag,
          handlers |-> handlers]
    ELSE IF RequireAxios(isInstalled).threw
    THEN [threw |-> FALSE, did |-> "absent", flag |-> flag,
          handlers |-> handlers]
    ELSE [threw |-> FALSE, did |-> "registered", flag |-> TRUE,
          handlers |-> ExternalInterceptors(handlers)]

\* isAxiosTracingInitialized() / isAxiosExternalTracingInitialized()
IsAxiosTracingInitialized == axiosTracingInitialized
IsAxiosExternalTracingInitialized == axiosExternalTracingInitialized

(***************************************************************************)
(* Inputs of one settle: what the backend does during it                   *)
(***************************************************************************)
\* cur: the transaction of the settling context; thA, thF, thS:
\* getTransaction() throws in getTransactionCalls, in saveExternalCalls, in
\* captureAxiosCall; sink: the agent rejects attributes; notice: the agent's
\* noticeError throws; seg: what startExternalSegment is
Input(cur, thA, thF, thS, seg, sink, notice) ==
    [cur |-> cur, thA |-> thA, thF |-> thF, thS |-> thS, seg |-> seg,
     sink |-> sink, notice |-> notice]

\* an input the code does not consult during the settle stays at its quiet
\* value: the sink is reached only when saveExternalCalls found a
\* transaction, noticeError only in the catch block of trackedFetch, the
\* segment only when captureAxiosCall found a transaction
Consulted(in) ==
    /\ in.sink => ~in.thF /\ in.cur # "none"
    /\ in.seg # "ok" => in.cur # "none"

FetchInputs(o, notices) ==
    { in \in [cur : CurTx, thA : BOOLEAN, thF : BOOLEAN, thS : {FALSE},
              seg : {"ok"}, sink : BOOLEAN, notice : notices] :
        /\ Consulted(in)
        /\ in.notice => o.kind = "reject" }

AxiosInputs(o) ==
    IF ~o.hasConfig
    THEN { Input(cur, FALSE, FALSE, FALSE, "ok", FALSE, FALSE) : cur \in CurTx }
    ELSE { Input(cur, FALSE, FALSE, TRUE, "ok", FALSE, FALSE) : cur \in CurTx }
         \cup { Input(cur, FALSE, FALSE, FALSE, seg, FALSE, FALSE) :
                  cur \in CurTx \ {"none"}, seg \in {"throws", "endThrows"} }
         \cup { in \in [cur : CurTx, thA : BOOLEAN, thF : BOOLEAN,
                        thS : {FALSE}, seg : {"ok", "missing"},
                        sink : BOOLEAN, notice : {FALSE}] : Consulted(in) }

Misbehaves(in) ==
    \/ in.cur = "none" \/ in.thA \/ in.thF \/ in.thS
    \/ in.sink \/ in.notice \/ in.seg # "ok"

\* the record of the call reaches the stored bucket of the transaction
TrackedUnder(path, o, in) ==
    /\ in.cur # "none" /\ ~in.thA
    /\ path = "axios" => o.hasConfig /\ ~in.thS /\ ~SegmentThrows(in.seg)

Present(map) == {k \in Keys : map[k].present}

\* the buckets a step deleted, each with the time it had been idle
Removed(before, after, t) ==
    { [key |-> k, idle |-> t - before[k].lastAccess] :
        k \in Present(before) \ Present(after) }

\* the urls recorded for k since its bucket came into existence
EpochAfter(log, before, after, appendedAt, url) ==
    [k \in Keys |->
        IF k \in Present(before) /\ k \notin Present(after) THEN <<>>
        ELSE IF k = appendedAt THEN Append(log[k], url) ELSE log[k]]

(***************************************************************************)
(* Actions                                                                 *)
(***************************************************************************)
\* url and options are fixed when the call starts but are read only when it
\* settles, so the method is drawn at the settle
StartFetchUpTo(limit) ==
    /\ Uses("fetch")
    /\ IF RequireNodeFetch(installed).threw
       THEN \* lines 176-184: the configuration error, before anything else
            /\ last' = [Quiet EXCEPT !.op = "unavailable",
                           !.del = Delivered("throw", "config", NoOutcome)]
            /\ UNCHANGED <<started, inflight>>
       ELSE /\ started < limit
            /\ started' = started + 1
            /\ inflight' = inflight \cup
                   {[id |-> started + 1, path |-> "fetch", start |-> now]}
            /\ last' = Quiet
    /\ UNCHANGED <<setup, uses, installed, handle, now, store, sweeperOn, nextSweep, reads,
                   emitted, tracked, epochLog>>

\* an axios call is tracked once the interceptors are registered
StartAxiosUpTo(limit, failures) ==
    /\ Uses("axios")
    /\ axiosExternalTracingInitialized
    /\ started < limit
    /\ \E agentThrows \in failures :
         inflight' = inflight \cup
           {[id |-> started + 1, path |-> "axios",
             start |-> RequestInterceptor(agentThrows, now)]}
    /\ started' = started + 1
    /\ last' = Quiet
    /\ UNCHANGED <<setup, uses, installed, handle, now, store, sweeperOn, nextSweep, reads, emitted,
                   tracked, epochLog>>

\* shaped: the step also records the shape of the call and what its caller
\* received (SpecSettle); otherwise only what the flush did
SettleEffects(c, m, o, in, r, shaped) ==
    LET p == c.path
        key == TxKey(in.cur)
        at == IF TrackedUnder(p, o, in) THEN key ELSE Detached
    IN
    /\ inflight' = inflight \ {c}
    /\ store' = [store EXCEPT ![p] = r.map]
    /\ emitted' = IF r.groups = <<>> THEN emitted
                  ELSE [emitted EXCEPT ![p][key] =
                          @ \cup {r.groups[j].index : j \in 1..Len(r.groups)}]
    /\ tracked' = IF at = Detached THEN tracked
                  ELSE [tracked EXCEPT ![p][at] = @ + 1]
    /\ epochLog' = [epochLog EXCEPT ![p] =
                      EpochAfter(@, store[p], r.map, at, UrlOf(c.id))]
    /\ last' = IF shaped
               THEN [op |-> "settle", path |-> p, id |-> c.id, method |-> m,
                     cur |-> in.cur, bad |-> Misbehaves(in),
                     seg |-> in.seg, und |-> o,
                     del |-> r.del, at |-> at, groups |-> r.groups,
                     rollup |-> r.rollup, flushed |-> r.flushed,
                     removed |-> {}]
               ELSE [Quiet EXCEPT !.op = "settle", !.path = p,
                                  !.cur = in.cur, !.at = at,
                                  !.groups = r.groups, !.rollup = r.rollup,
                                  !.flushed = r.flushed]
    /\ UNCHANGED <<setup, uses, installed, handle, now, sweeperOn, nextSweep, started, reads>>

SettleFetchWith(methods, outcomes, notices, shaped) ==
    \E c \in inflight, m \in methods, o \in outcomes :
     \E in \in FetchInputs(o, notices) :
       /\ c.path = "fetch"
       /\ SettleEffects(c, m, o, in,
             TrackedFetchSettle(store["fetch"], c, m, o, in, now), shaped)

SettleAxiosWith(methods, outcomes, shaped) ==
    \E c \in inflight, m \in methods, o \in outcomes :
     \E in \in AxiosInputs(o) :
       /\ c.path = "axios"
       /\ SettleEffects(c, m, o, in,
             AxiosSettle(store["axios"], c, m, o, in, now), shaped)

\* getExternalCallsForCurrentTransaction / getAxiosExternalCallsFor...
GetCalls(p) ==
    /\ Uses(p)
    /\ reads < MaxReads
    /\ reads' = reads + 1
    /\ \E cur \in CurTx, agentThrows \in BOOLEAN :
         store' = [store EXCEPT ![p] =
                     GetTransactionCalls(@, cur, agentThrows, now).map]
    /\ last' = Quiet
    /\ UNCHANGED <<setup, uses, installed, handle, now, sweeperOn, nextSweep, inflight, started, emitted,
                   tracked, epochLog>>

\* clearExternalCallsMap / clearAxiosExternalCallsMap
Clear(p) ==
    /\ Uses(p)
    /\ store' = [store EXCEPT ![p] = ClearMap(@)]
    /\ epochLog' = [epochLog EXCEPT ![p] =
                      EpochAfter(@, store[p], ClearMap(store[p]), Detached, 0)]
    /\ last' = [Quiet EXCEPT !.op = "clear", !.path = p,
                   !.removed = Removed(store[p], ClearMap(store[p]), now)]
    /\ UNCHANGED <<setup, uses, installed, handle, now, sweeperOn, nextSweep, inflight, started, reads,
                   emitted, tracked>>

\* clearNodeFetchCleanupInterval / clearAxiosExternalCleanupInterval
StopSweeper(p) ==
    /\ Uses(p)
    /\ sweeperOn' = [sweeperOn EXCEPT ![p] = ClearInterval(@)]
    /\ last' = [Quiet EXCEPT !.op = "stop", !.path = p]
    /\ UNCHANGED <<setup, uses, installed, handle, now, store, nextSweep, inflight, started, reads,
                   emitted, tracked, epochLog>>

\* the setInterval callback, every SweepInterval while the timer is armed
Sweep(p) ==
    /\ Uses(p)
    /\ sweeperOn[p]
    /\ now = nextSweep[p]
    /\ nextSweep' = [nextSweep EXCEPT ![p] = @ + SweepInterval]
    /\ store' = [store EXCEPT ![p] = CleanupTick(@, now)]
    /\ epochLog' = [epochLog EXCEPT ![p] =
                      EpochAfter(@, store[p], CleanupTick(store[p], now),
                                 Detached, 0)]
    /\ last' = [Quiet EXCEPT !.op = "sweep", !.path = p,
                   !.removed = Removed(store[p], CleanupTick(store[p], now),
                                       now)]
    /\ UNCHANGED <<setup, uses, installed, handle, now, sweeperOn, inflight, started, reads, emitted,
                   tracked>>

\* time passes, but not beyond the moment an armed timer is due
Due == {nextSweep[p] : p \in {q \in Paths : Uses(q) /\ sweeperOn[q]}}
Tick ==
    /\ now < Horizon
    /\ \A d \in Due : now < d
    /\ LET target == now + ClockStep
           caps == {d \in Due \cup {Horizon} : d <= target}
       IN now' = IF caps = {} THEN target
                 ELSE CHOOSE d \in caps : \A e \in caps : d <= e
    /\ last' = Quiet
    /\ UNCHANGED <<setup, uses, installed, handle, store, sweeperOn, nextSweep, inflight, started,
                   reads, emitted, tracked, epochLog>>

(***************************************************************************)
(* Spec: the aggregator under any interleaving of calls, reads, hooks and  *)
(* timer ticks, every backend failure included; the calls are plain        *)
(***************************************************************************)
PlainMethods == {""}
PlainFetchOutcomes ==
    { Outcome("resolve", 200, "OK", "", TRUE, TRUE, TRUE),
      Outcome("reject", 0, "", "ECONNREFUSED", TRUE, FALSE, TRUE) }
PlainAxiosOutcomes ==
    { Outcome("resolve", 200, "OK", "", TRUE, TRUE, TRUE),
      Outcome("reject", 0, "", "Network Error", TRUE, FALSE, TRUE) }

StartFetch == StartFetchUpTo(MaxCalls)
StartAxios == StartAxiosUpTo(MaxCalls, {FALSE})
SettleFetch == SettleFetchWith(PlainMethods, PlainFetchOutcomes, {FALSE}, FALSE)
SettleAxios == SettleAxiosWith(PlainMethods, PlainAxiosOutcomes, FALSE)

Next ==
    \/ StartFetch
    \/ StartAxios
    \/ SettleFetch
    \/ SettleAxios
    \/ \E p \in Paths : GetCalls(p)
    \/ \E p \in Paths : Clear(p)
    \/ \E p \in Paths : StopSweeper(p)
    \/ \E p \in Paths : Sweep(p)
    \/ Tick

Spec == Init /\ [][Next]_vars

(***************************************************************************)
(* SpecSettle: one call of any shape (method, status, error, backend       *)
(* failure) settling against a store the getter may have touched           *)
(***************************************************************************)
StartOneFetch == StartFetchUpTo(MaxShapedCalls)
StartOneAxios == StartAxiosUpTo(MaxShapedCalls, BOOLEAN)
SettleAnyFetch == SettleFetchWith(Methods, FetchOutcomes, BOOLEAN, TRUE)
SettleAnyAxios == SettleAxiosWith(Methods, AxiosOutcomes, TRUE)

NextSettle ==
    \/ StartOneFetch
    \/ StartOneAxios
    \/ SettleAnyFetch
    \/ SettleAnyAxios
    \/ \E p \in Paths : GetCalls(p)
    \/ \E p \in Paths : Sweep(p)
    \/ Tick

SpecSettle == Init /\ [][NextSettle]_vars

(***************************************************************************)
(* SpecFlush: the flush applied once more to a stored bucket, as the       *)
(* contract of the flush policy describes it                               *)
(***************************************************************************)
FlushAgain(p) ==
    /\ Uses(p)
    /\ \E k \in Present(store[p]), sink \in BOOLEAN :
         LET calls == store[p][k].calls
             r == IF p = "fetch"
                  THEN SaveExternalCallsFetch(store[p], calls, CurOf(k),
                                              FALSE, sink)
                  ELSE SaveExternalCallsAxios(store[p], calls, CurOf(k),
                                              FALSE, sink)
         IN /\ store' = [store EXCEPT ![p] = r.map]
            /\ emitted' = IF r.groups = <<>> THEN emitted
                          ELSE [emitted EXCEPT ![p][k] = @ \cup
                                 {r.groups[j].index : j \in 1..Len(r.groups)}]
            /\ last' = [Quiet EXCEPT !.op = "flush", !.path = p,
                           !.cur = CurOf(k), !.at = k, !.groups = r.groups,
                           !.rollup = r.rollup, !.flushed = r.flushed]
    /\ UNCHANGED <<setup, uses, installed, handle, now, sweeperOn, nextSweep, inflight, started, reads,
                   tracked, epochLog>>

NextFlush ==
    \/ StartFetch
    \/ StartAxios
    \/ SettleFetch
    \/ SettleAxios
    \/ \E p \in Paths : GetCalls(p)
    \/ \E p \in Paths : FlushAgain(p)

SpecFlush == Init /\ [][NextFlush]_vars

(***************************************************************************)
(* SpecRetry: a longer run of calls of one transaction while the agent     *)
(* rejects every addCustomAttributes (the service swallows the failure)    *)
(* and getTransaction may throw inside getTransactionCalls                 *)
(***************************************************************************)
SinkDownInputs ==
    { Input("tx1", thA, FALSE, FALSE, "ok", TRUE, FALSE) : thA \in BOOLEAN }

StartFetchSinkDown == StartFetchUpTo(MaxRetryCalls)
StartAxiosSinkDown == StartAxiosUpTo(MaxRetryCalls, {FALSE})

SettleFetchSinkDown ==
    \E c \in inflight, o \in PlainFetchOutcomes, in \in SinkDownInputs :
       /\ c.path = "fetch"
       /\ SettleEffects(c, "", o, in,
             TrackedFetchSettle(store["fetch"], c, "", o, in, now), FALSE)

SettleAxiosSinkDown ==
    \E c \in inflight, o \in PlainAxiosOutcomes, in \in SinkDownInputs :
       /\ c.path = "axios"
       /\ SettleEffects(c, "", o, in,
             AxiosSettle(store["axios"], c, "", o, in, now), FALSE)

NextRetry ==
    \/ StartFetchSinkDown
    \/ StartAxiosSinkDown
    \/ SettleFetchSinkDown
    \/ SettleAxiosSinkDown

SpecRetry == Init /\ [][NextRetry]_vars

(***************************************************************************)
(* SpecRead: a caller of the getter keeps the array it was handed and      *)
(* changes it, while calls of the transaction go on settling               *)
(***************************************************************************)
\* what a caller may put into an array it holds
Forged ==
    [url |-> 0, method |-> "GET", statusCode |-> 0, duration |-> 0,
     success |-> FALSE, error |-> "forged"]

\* the present content of the array the holder was handed: return data.calls
\* hands out the stored array itself
ReturnedArray(map, h) ==
    IF h.ref \in Keys THEN map[h.ref].calls ELSE h.seen

ReadAndKeep(p) ==
    /\ Uses(p)
    /\ reads < MaxReads
    /\ reads' = reads + 1
    /\ \E cur \in CurTx, agentThrows \in BOOLEAN :
         LET g == GetTransactionCalls(store[p], cur, agentThrows, now) IN
         /\ store' = [store EXCEPT ![p] = g.map]
         /\ handle' = [ref |-> g.ref, seen |-> g.calls, muts |-> 0]
    /\ last' = Quiet
    /\ UNCHANGED <<setup, uses, installed, now, sweeperOn, nextSweep, inflight,
                   started, emitted, tracked, epochLog>>

\* what the holder does to the array: push(record), or length = 0
ArrayChange(calls, change) ==
    IF change = "push" THEN Append(calls, Forged) ELSE <<>>

CallerChanges(p, change) ==
    /\ Uses(p)
    /\ handle.ref # "none"
    /\ handle.muts < MaxMutations
    /\ handle' = [handle EXCEPT !.muts = @ + 1,
                                !.seen = IF handle.ref \in Keys THEN @
                                         ELSE ArrayChange(@, change)]
    /\ store' = IF handle.ref \in Keys
                THEN [store EXCEPT ![p][handle.ref].calls =
                                      ArrayChange(@, change)]
                ELSE store
    /\ last' = [Quiet EXCEPT !.op = "mutate", !.path = p, !.at = handle.ref]
    /\ UNCHANGED <<setup, uses, installed, now, sweeperOn, nextSweep, inflight,
                   started, reads, emitted, tracked, epochLog>>

CallerAppends(p) == CallerChanges(p, "push")
CallerTruncates(p) == CallerChanges(p, "empty")

NextRead ==
    \/ StartFetch
    \/ StartAxios
    \/ SettleFetch
    \/ SettleAxios
    \/ \E p \in Paths : ReadAndKeep(p)
    \/ \E p \in Paths : CallerAppends(p)
    \/ \E p \in Paths : CallerTruncates(p)

SpecRead == Init /\ [][NextRead]_vars

(***************************************************************************)
(* SpecBoth: an application that tracks calls on both paths, so that one   *)
(* transaction makes fetch calls and axios calls                           *)
(***************************************************************************)
InitBoth ==
    /\ uses = "both"
    /\ installed = TRUE
    /\ axiosInstalled = TRUE
    /\ axiosTracingInitialized = FALSE
    /\ axiosExternalTracingInitialized = TRUE
    /\ interceptors = ExternalInterceptors(NoInterceptors)
    /\ initLog = NoInitLog
    /\ Loaded

NextBoth ==
    \/ StartFetch
    \/ StartAxios
    \/ SettleFetch
    \/ SettleAxios
    \/ \E p \in Paths : GetCalls(p)

SpecBoth == InitBoth /\ [][NextBoth]_vars

(***************************************************************************)
(* SpecInit: the application calls the axios initializers, directly or     *)
(* through initializeObservability(options), any number of times, in a     *)
(* process where axios may be missing and may become available             *)
(***************************************************************************)
trackerVars == <<uses, installed, handle, now, store, sweeperOn, nextSweep,
                 inflight, started, reads, emitted, tracked, epochLog>>

InitSetup ==
    /\ uses = "setup"
    /\ installed = TRUE
    /\ axiosInstalled \in BOOLEAN
    /\ axiosTracingInitialized = FALSE
    /\ axiosExternalTracingInitialized = FALSE
    /\ interceptors = NoInterceptors
    /\ initLog = NoInitLog
    /\ Loaded

Returned(r) == Delivered(IF r.threw THEN "throw" ELSE "return", "init",
                         NoOutcome)

CallInitializeAxiosTracing ==
    /\ Len(initLog["tracing"]) < MaxInits
    /\ LET r == InitializeAxiosTracing(axiosTracingInitialized, interceptors,
                                       axiosInstalled)
       IN /\ axiosTracingInitialized' = r.flag
          /\ interceptors' = r.handlers
          /\ initLog' = [initLog EXCEPT !["tracing"] = Append(@, r.did)]
          /\ last' = [Quiet EXCEPT !.op = "init", !.path = "tracing",
                         !.del = Returned(r)]
    /\ UNCHANGED <<trackerVars, mongoVars, scrubVars,
                   axiosInstalled,
                   axiosExternalTracingInitialized, handled>>

CallInitializeAxiosExternalTracing ==
    /\ Len(initLog["external"]) < MaxInits
    /\ LET r == InitializeAxiosExternalTracing(
                    axiosExternalTracingInitialized, interceptors,
                    axiosInstalled)
       IN /\ axiosExternalTracingInitialized' = r.flag
          /\ interceptors' = r.handlers
          /\ initLog' = [initLog EXCEPT !["external"] = Append(@, r.did)]
          /\ last' = [Quiet EXCEPT !.op = "init", !.path = "external",
                         !.del = Returned(r)]
    /\ UNCHANGED <<trackerVars, mongoVars, scrubVars,
                   axiosInstalled, axiosTracingInitialized,
                   handled>>

\* initializeObservability(options): the enhanced initializer when
\* options.enhancedAxiosTracking is truthy, the basic one otherwise
InitializeObservability ==
    \E enhancedAxiosTracking \in BOOLEAN :
       IF enhancedAxiosTracking THEN CallInitializeAxiosExternalTracing
       ELSE CallInitializeAxiosTracing

\* axios becomes resolvable in the running process
AxiosInstalled ==
    /\ ~axiosInstalled
    /\ axiosInstalled' = TRUE
    /\ last' = Quiet
    /\ UNCHANGED <<trackerVars, mongoVars, scrubVars,
                   axiosTracingInitialized,
                   axiosExternalTracingInitialized, interceptors, initLog,
                   handled>>

NextInit ==
    \/ CallInitializeAxiosTracing
    \/ CallInitializeAxiosExternalTracing
    \/ InitializeObservability
    \/ AxiosInstalled

SpecInit == InitSetup /\ [][NextInit]_vars

\* the application reaches the initializers only through
\* initializeObservability(options)
NextObservability ==
    \/ InitializeObservability
    \/ AxiosInstalled

SpecObservability == InitSetup /\ [][NextObservability]_vars

\* how often insertDistributedTraceHeaders runs for one outbound request
\* made inside a transaction: the request handler of either module calls it
HeaderInsertions(handlers) ==
    Cardinality({i \in 1..Len(handlers.request) :
                   handlers.request[i] \in {"tracing", "external"}})

(***************************************************************************)
(* SpecMiddleware: requests passing through the middleware that            *)
(* observabilityMiddleware() returns                                       *)
(***************************************************************************)
RequestPaths == {"/health", "/healthcheck", "/ping", "/status", "/",
                 "/api/users"}

\* setTransactionName of the service: guarded like addCustomAttributes
SetTransactionName(agentThrows) == [threw |-> FALSE, accepted |-> ~agentThrows]

\* what the qrTraceId generator set by the application does
Generators == {"none", "returns", "throws"}

ObservabilityMiddlewareNextInTry(path, hasHeaders, agentThrows, generator) ==
    IF ~hasHeaders
    THEN [path |-> path, attributes |-> Absent, name |-> Absent,
          qrTraceId |-> Absent, next |-> FALSE, nextCalls |-> <<>>]
    ELSE [path |-> path,
          attributes |-> IF AddCustomAttributes(agentThrows).threw
                         THEN Absent ELSE path,
          name |-> IF \/ AddCustomAttributes(agentThrows).threw
                      \/ SetTransactionName(agentThrows).threw
                   THEN Absent ELSE path,
          qrTraceId |-> IF generator = "returns" THEN "generated"
                        ELSE Absent,
          next |-> TRUE, nextCalls |-> <<Absent>>]

\* the middleware function for a request to path: attributes is the
\* http.path handed to addCustomAttributes, name the route handed to
\* setTransactionName, Absent when the call was not made; a request object
\* without headers makes the attribute literal throw, which the outer
\* catch swallows; the request carries no x-request-id, so the generator is
\* asked for the qrTraceId and its exception is swallowed by the inner
\* catch; nextCalls holds the argument of each call of next, Absent for
\* next()
ObservabilityMiddleware(path, hasHeaders, agentThrows, generator) ==
    IF ~hasHeaders
    THEN [path |-> path, attributes |-> Absent, name |-> Absent,
          qrTraceId |-> Absent, next |-> TRUE, nextCalls |-> <<Absent>>]
    ELSE [path |-> path,
          attributes |-> IF AddCustomAttributes(agentThrows).threw
                         THEN Absent ELSE path,
          name |-> IF \/ AddCustomAttributes(agentThrows).threw
                      \/ SetTransactionName(agentThrows).threw
                   THEN Absent ELSE path,
          qrTraceId |-> IF generator = "returns" THEN "generated"
                        ELSE Absent,
          next |-> TRUE, nextCalls |-> <<Absent>>]

HandleRequest ==
    /\ Len(handled) < MaxRequests
    /\ \E path \in RequestPaths, hasHeaders \in BOOLEAN,
          agentThrows \in BOOLEAN, generator \in Generators :
         /\ handled' = Append(handled,
                           ObservabilityMiddleware(path, hasHeaders,
                                                   agentThrows, generator)
                             @@ [wellFormed |-> hasHeaders,
                                 agentDown |-> agentThrows,
                                 generator |-> generator])
         /\ last' = [Quiet EXCEPT !.op = "request"]
    /\ UNCHANGED <<trackerVars, mongoVars, scrubVars,
                   axiosInstalled,
                   axiosTracingInitialized, axiosExternalTracingInitialized,
                   interceptors, initLog>>

NextMiddleware == HandleRequest

SpecMiddleware == InitSetup /\ [][NextMiddleware]_vars

(***************************************************************************)
(* MongoDB command monitoring: registerMongoClient, setupMonitoring and    *)
(* the three listeners it attaches to the client                           *)
(***************************************************************************)
Clients == {"c1", "c2"}
MonitoredEvents == <<"commandStarted", "commandSucceeded", "commandFailed">>
\* what the registered getter does when setupMonitoring calls it
GetterResults == {"null", "throws"} \cup Clients

\* the commands the driver reports: a find whose filter holds plain values,
\* a find whose filter holds a BigInt (find({n: 10n})), an insert
Commands ==
    {[name |-> "find", filter |-> "plain"],
     [name |-> "find", filter |-> "bigint"],
     [name |-> "insert", filter |-> "none"]}

\* scrub(filter) as buildCommandPreview uses it: JSON.stringify throws on a
\* BigInt and scrub's catch returns the fallback object
ScrubbedFilter(filter) == IF filter = "bigint" THEN "fallback" ELSE "scrubbed"

\* buildCommandPreview: the plain build returns the filter itself when the
\* command has one; the scrubbing build returns scrub(filter) for a find and
\* the number of documents for an insert
BuildCommandPreview(build, command) ==
    IF build = "plain"
    THEN IF command.filter # "none"
         THEN [shape |-> "filter", value |-> command.filter]
         ELSE [shape |-> "minimal", value |-> "none"]
    ELSE IF command.name = "find"
         THEN [shape |-> "filter", value |-> ScrubbedFilter(command.filter)]
         ELSE [shape |-> "docsCount", value |-> "none"]

\* JSON.stringify(cmdData.preview) throws a TypeError on a BigInt
StringifyThrows(preview) == preview.value = "bigint"

SetupMonitoringUnguarded(flag, attached, got) ==
    IF got = "throws"
    THEN [flag |-> flag, listeners |-> attached, did |-> "getterThrew"]
    ELSE IF got = "null"
    THEN [flag |-> flag, listeners |-> attached, did |-> "noClient"]
    ELSE [flag |-> TRUE,
          listeners |-> attached \o
              [i \in 1..3 |-> [client |-> got, event |-> MonitoredEvents[i]]],
          did |-> "attached"]

\* setupMonitoring: nothing when already installed; the getter's exception is
\* swallowed; without a client nothing changes; otherwise the flag is set and
\* the three listeners are attached to the client
SetupMonitoring(flag, attached, got) ==
    IF flag
    THEN [flag |-> flag, listeners |-> attached, did |-> "skipped"]
    ELSE IF got = "throws"
    THEN [flag |-> flag, listeners |-> attached, did |-> "getterThrew"]
    ELSE IF got = "null"
    THEN [flag |-> flag, listeners |-> attached, did |-> "noClient"]
    ELSE [flag |-> TRUE,
          listeners |-> attached \o
              [i \in 1..3 |-> [client |-> got, event |-> MonitoredEvents[i]]],
          did |-> "attached"]

\* the listener of commandStarted: stores the entry of the request
OnCommandStarted(tracking, build, r, command) ==
    [tracking EXCEPT ![r] =
        [present |-> TRUE, commandName |-> command.name,
         preview |-> BuildCommandPreview(build, command)]]

SpanCall(r, ok) ==
    [call |-> "addCustomSpanAttributes", requestId |-> r, success |-> ok]
ErrorCall(r) == [call |-> "noticeError", requestId |-> r, success |-> FALSE]

\* the listeners of commandSucceeded (ok) and commandFailed: nothing without
\* a stored entry; the attributes are built first, and an exception while
\* building them leaves the handler before the service is called and before
\* the entry is deleted
OnCommandSettled(tracking, r, ok, failureIsError) ==
    IF ~tracking[r].present
    THEN [tracking |-> tracking, calls |-> <<>>]
    ELSE IF StringifyThrows(tracking[r].preview)
    THEN [tracking |-> tracking, calls |-> <<>>]
    ELSE [tracking |-> [tracking EXCEPT ![r] = NoEntry],
          calls |-> <<SpanCall(r, ok)>> \o
                    (IF ~ok /\ failureIsError THEN <<ErrorCall(r)>>
                     ELSE <<>>)]

\* the client delivers the event to a listener
Listening(c, e) ==
    \E i \in 1..Len(listeners) : listeners[i] = [client |-> c, event |-> e]

otherVars == <<axiosInstalled, axiosTracingInitialized,
               axiosExternalTracingInitialized, interceptors, initLog,
               handled, scrubVars>>

InitMongo ==
    /\ uses = "setup"
    /\ installed = TRUE
    /\ axiosInstalled = TRUE
    /\ axiosTracingInitialized = FALSE
    /\ axiosExternalTracingInitialized = FALSE
    /\ interceptors = NoInterceptors
    /\ initLog = NoInitLog
    /\ TrackerLoaded
    /\ MongoLoaded(MongoBuilds)
    /\ ScrubLoaded({EmptyObject})

RegisterMongoClient ==
    /\ Len(registerLog) < MaxRegisters
    /\ \E got \in GetterResults :
        LET r == SetupMonitoring(monitoringInstalled, listeners, got)
        IN  /\ monitoringInstalled' = r.flag
            /\ listeners' = r.listeners
            /\ registerLog' = Append(registerLog,
                                     [got |-> got, did |-> r.did])
    /\ last' = [Quiet EXCEPT !.op = "registerMongoClient"]
    /\ UNCHANGED <<trackerVars, otherVars, mongoBuild, commandTracking, spans,
                   pending, eventCount>>

\* the driver starts a command: its requestId is not that of a command in
\* flight
CommandStarted ==
    /\ eventCount < MaxEvents
    /\ \E c \in Clients, r \in RequestIds \ pending, command \in Commands :
        /\ Listening(c, "commandStarted")
        /\ commandTracking' =
               OnCommandStarted(commandTracking, mongoBuild, r, command)
        /\ pending' = pending \cup {r}
        /\ last' = [Quiet EXCEPT !.op = "commandStarted", !.id = r]
    /\ eventCount' = eventCount + 1
    /\ UNCHANGED <<trackerVars, otherVars, mongoBuild, monitoringInstalled,
                   listeners, registerLog, spans>>

CommandSettled(ok) ==
    /\ eventCount < MaxEvents
    /\ \E c \in Clients, r \in RequestIds, failureIsError \in BOOLEAN :
        LET e == IF ok THEN "commandSucceeded" ELSE "commandFailed"
            res == OnCommandSettled(commandTracking, r, ok, failureIsError)
        IN  /\ Listening(c, e)
            /\ commandTracking' = res.tracking
            /\ spans' = spans \o res.calls
            /\ pending' = pending \ {r}
            /\ last' = [Quiet EXCEPT !.op = e, !.id = r]
    /\ eventCount' = eventCount + 1
    /\ UNCHANGED <<trackerVars, otherVars, mongoBuild, monitoringInstalled,
                   listeners, registerLog>>

CommandSucceeded == CommandSettled(TRUE)

CommandFailed == CommandSettled(FALSE)

NextMongo ==
    \/ RegisterMongoClient
    \/ CommandStarted
    \/ CommandSucceeded
    \/ CommandFailed

SpecMongo == InitMongo /\ [][NextMongo]_vars

(***************************************************************************)
(* scrub: the copy of a value with the values of sensitive keys replaced   *)
(* and long strings cut                                                    *)
(***************************************************************************)
Uppers == <<"A", "B", "C", "D", "E", "F", "G", "H", "I", "J", "K", "L", "M",
            "N", "O", "P", "Q", "R", "S", "T", "U", "V", "W", "X", "Y", "Z">>
Lowers == <<"a", "b", "c", "d", "e", "f", "g", "h", "i", "j", "k", "l", "m",
            "n", "o", "p", "q", "r", "s", "t", "u", "v", "w", "x", "y", "z">>

\* k.toLowerCase()
ToLowerCase(k) ==
    [i \in 1..Len(k) |->
        IF \E j \in 1..Len(Uppers) : Uppers[j] = k[i]
        THEN Lowers[CHOOSE j \in 1..Len(Uppers) : Uppers[j] = k[i]]
        ELSE k[i]]

\* k.includes(rk)
Includes(k, rk) ==
    \E i \in 0..(Len(k) - Len(rk)) : SubSeq(k, i + 1, i + Len(rk)) = rk

\* the default of the option redactKeys
RedactKeys ==
    {<<"p", "a", "s", "s", "w", "o", "r", "d">>, <<"t", "o", "k", "e", "n">>,
     <<"s", "e", "c", "r", "e", "t">>, <<"e", "m", "a", "i", "l">>,
     <<"p", "h", "o", "n", "e">>, <<"o", "t", "p">>}

\* redactKeys.some((rk) => k.toLowerCase().includes(rk))
IsRedactKey(k) == \E rk \in RedactKeys : Includes(ToLowerCase(k), rk)

Redacted == String("[REDACTED]", 10)

IsContainer(v) == v.t \in {"object", "array"}

\* JSON.stringify throws on a BigInt anywhere in the value
RECURSIVE Serialisable(_)
Serialisable(v) ==
    /\ v.t # "bigint"
    /\ \A i \in 1..Len(v.kv) : Serialisable(v.kv[i].v)

IsDefined(p) == p.v.t # "undefined"

\* JSON.parse(JSON.stringify(v)): a fresh value; a property whose value is
\* undefined is left out of an object and becomes null in an array
RECURSIVE JsonRoundTrip(_)
JsonRoundTrip(v) ==
    IF v.t = "object"
    THEN LET kept == SelectSeq(v.kv, IsDefined)
         IN  [v EXCEPT !.kv = [i \in 1..Len(kept) |->
                 [k |-> kept[i].k, v |-> JsonRoundTrip(kept[i].v)]]]
    ELSE IF v.t = "array"
    THEN [v EXCEPT !.kv = [i \in 1..Len(v.kv) |->
             [k |-> v.kv[i].k,
              v |-> IF IsDefined(v.kv[i]) THEN JsonRoundTrip(v.kv[i].v)
                    ELSE Null]]]
    ELSE v

\* `${v.slice(0, maxLen)}…`
Truncated(v) == [v EXCEPT !.n = MaxLen + 1, !.cut = TRUE]

RECURSIVE WalkShallow(_)
WalkShallow(o) ==
    [o EXCEPT !.kv = [i \in 1..Len(o.kv) |->
        [k |-> o.kv[i].k,
         v |-> IF IsRedactKey(o.kv[i].k) THEN Redacted
               ELSE IF o.kv[i].v.t = "string" /\ o.kv[i].v.n > MaxLen
               THEN Truncated(o.kv[i].v)
               ELSE o.kv[i].v]]]

\* walk(o): for each key of o, the value of a redact key is replaced, any
\* other object or array is walked, any other long string is cut
RECURSIVE Walk(_)
Walk(o) ==
    [o EXCEPT !.kv = [i \in 1..Len(o.kv) |->
        [k |-> o.kv[i].k,
         v |-> IF IsRedactKey(o.kv[i].k) THEN Redacted
               ELSE IF IsContainer(o.kv[i].v) THEN Walk(o.kv[i].v)
               ELSE IF o.kv[i].v.t = "string" /\ o.kv[i].v.n > MaxLen
               THEN Truncated(o.kv[i].v)
               ELSE o.kv[i].v]]]

\* what the catch returns: { preview: `${String(obj).slice(0, maxLen)}…` }
Fallback(obj) ==
    Value("object", "", 0, FALSE,
          <<[k |-> <<"p", "r", "e", "v", "i", "e", "w">>,
             v |-> Value("string", "String(obj)", 0, TRUE, <<>>)]>>)

\* obj ?? {}
OrEmpty(obj) == IF obj.t \in {"null", "undefined"} THEN EmptyObject ELSE obj

ScrubInPlace(obj) ==
    IF ~Serialisable(OrEmpty(obj))
    THEN [result |-> Fallback(obj), arg |-> obj]
    ELSE [result |-> Walk(JsonRoundTrip(OrEmpty(obj))),
          arg |-> IF IsContainer(obj) THEN Walk(obj) ELSE obj]

\* scrub(obj) with its default options: result is what it returns, arg the
\* argument as the caller finds it afterwards; walk runs on the clone
Scrub(obj) ==
    IF ~Serialisable(OrEmpty(obj))
    THEN [result |-> Fallback(obj), arg |-> obj]
    ELSE [result |-> Walk(JsonRoundTrip(OrEmpty(obj))), arg |-> obj]

\* the values scrub is called with
InputKeys == <<<<"n", "a", "m", "e">>,
               <<"a", "u", "t", "h", "T", "o", "k", "e", "n">>>>
Digits == <<"0", "1", "2", "3", "4", "5", "6", "7", "8", "9">>
Atoms == {String("s3cr3t", 6), String("long text", MaxLen + 1), Null,
          Undefined, BigInt}

KeySets ==
    {ks \in SUBSET {InputKeys[i] : i \in 1..Len(InputKeys)} :
        Cardinality(ks) <= MaxFields}

\* the object with the keys ks, in the order of InputKeys, and the values f
ObjectOf(ks, f) ==
    LET Chosen(k) == k \in ks
        keys == SelectSeq(InputKeys, Chosen)
    IN  Value("object", "", 0, FALSE,
              [i \in 1..Len(keys) |-> [k |-> keys[i], v |-> f[keys[i]]]])

ObjectsOver(vs) == UNION {{ObjectOf(ks, f) : f \in [ks -> vs]} : ks \in KeySets}

\* the arrays of up to MaxFields items from vs; the keys of an array are its
\* indices
ArraysOver(vs) ==
    UNION {{Value("array", "", 0, FALSE,
                  [i \in 1..n |-> [k |-> <<Digits[i]>>, v |-> f[i]]]) :
            f \in [1..n -> vs]} : n \in 0..MaxFields}

RECURSIVE Values(_)
Values(d) ==
    IF d = 0 THEN Atoms
    ELSE Atoms \cup ObjectsOver(Values(d - 1)) \cup ArraysOver(Values(d - 1))

InitScrub ==
    /\ uses = "setup"
    /\ installed = TRUE
    /\ axiosInstalled = TRUE
    /\ axiosTracingInitialized = FALSE
    /\ axiosExternalTracingInitialized = FALSE
    /\ interceptors = NoInterceptors
    /\ initLog = NoInitLog
    /\ TrackerLoaded
    /\ MongoLoaded({"scrubbing"})
    /\ ScrubLoaded(Values(MaxDepth))

\* buildCommandPreview hands a part of the command to scrub
CallScrub ==
    /\ scrubResult = NotCalled
    /\ scrubResult' = Scrub(scrubArg).result
    /\ scrubArg' = Scrub(scrubArg).arg
    /\ last' = [Quiet EXCEPT !.op = "scrub"]
    /\ UNCHANGED <<trackerVars, mongoVars, axiosInstalled,
                   axiosTracingInitialized, axiosExternalTracingInitialized,
                   interceptors, initLog, handled, scrubInput>>

NextScrub == CallScrub

SpecScrub == InitScrub /\ [][NextScrub]_vars

(***************************************************************************)
(* Properties                                                              *)
(***************************************************************************)
Urls(calls) == [i \in 1..Len(calls) |-> calls[i].url]
\* what the getter hands back when the backend reports the transaction of k
GetterReturns(p, k) ==
    GetTransactionCalls(store[p], CurOf(k), FALSE, now).calls
\* what the caller of a tracked call receives when tracking is transparent
Transparent(l) ==
    l.del = Delivered(IF l.und.kind = "resolve" THEN "return" ELSE "throw",
                      "underlying", l.und)

\* C1, as claimed: after N calls tracked under one transaction id the getter
\* returns exactly N records
C1_AsClaimed ==
    \A p \in Paths, k \in Keys : Len(GetterReturns(p, k)) = tracked[p][k]

\* C1, amended: the getter returns exactly the records of the calls tracked
\* under the id since its bucket was created (a clear or an eviction
\* discards the earlier ones), in the order in which the calls settled
C1_SettleOrderSinceCreation ==
    \A p \in Paths, k \in Keys : Urls(GetterReturns(p, k)) = epochLog[p][k]

\* two overlapping calls recorded in settle order, the reverse of the order
\* in which they were started
C1_Witness ==
    \E p \in Paths, k \in Keys :
       /\ Urls(store[p][k].calls) = <<UrlOf(2), UrlOf(1)>>
       /\ tracked[p][k] = 2

\* C2: the caller of a tracked call receives exactly the response the
\* underlying call returned, or exactly the error it raised
C2_Transparent == last.op = "settle" => Transparent(last)

C2_Witness ==
    /\ last.op = "settle" /\ last.path = "fetch"
    /\ last.und.kind = "reject" /\ last.at # Detached
    /\ last.del.kind = "throw"

\* C3, as claimed: a wrapped call that fails (with an error that has a
\* message and a config, while a transaction is current and the backend
\* works) leaves exactly one new record in the bucket of the transaction,
\* with success = false, the status of the error's response or 0, and a
\* non-empty error string; the caller receives the original error
C3_AsClaimed ==
    [][ (/\ last'.op = "settle" /\ last'.und.kind = "reject"
         /\ last'.und.hasConfig /\ TruthyStr(last'.und.message)
         /\ last'.cur # "none" /\ ~last'.bad)
        => LET p == last'.path
               k == TxKey(last'.cur)
               before == store[p][k].calls
               after == store'[p][k].calls
           IN /\ Len(after) = Len(before) + 1
              /\ ~after[Len(after)].success
              /\ after[Len(after)].statusCode =
                   (IF last'.und.hasResponse THEN last'.und.status ELSE 0)
              /\ TruthyStr(after[Len(after)].error)
              /\ Transparent(last') ]_vars

\* C4: when the backend misbehaves during the tracking of a settled call, no
\* error of the tracking machinery reaches the caller: a response is still
\* returned, a failure still fails with its own error
C4_TrackingErrorsSwallowed ==
    (last.op = "settle" /\ last.bad)
    => /\ last.del.src # "tracking"
       /\ last.und.kind = "resolve" => last.del.kind = "return"
       /\ last.und.kind = "reject" => last.del.kind = "throw"
       /\ last.del.payload = last.und

C4_Witness ==
    /\ last.op = "settle" /\ last.bad /\ last.cur # "none"
    /\ last.und.kind = "resolve" /\ last.at = Detached
    /\ last.del.kind = "return"

\* the settle that has just happened appended a record to a stored bucket
\* and flushed it
FlushedAppend == last'.op = "settle" /\ last'.flushed /\ last'.at # Detached

\* C5, as claimed: with the first k of n records flushed and m more added,
\* the flush emits exactly m groups, indexed k+1 .. k+m
C5_AsClaimed ==
    [][ FlushedAppend
        => LET p == last'.path
               b == store[p][last'.at]
               k == b.lastSavedIndex + 1
               m == Len(store'[p][last'.at].calls) - Len(b.calls)
           IN /\ Len(last'.groups) = m
              /\ \A j \in 1..Len(last'.groups) :
                    last'.groups[j].index = k + j ]_vars

\* C5, amended: with the first k of n records flushed and m more added, the
\* flush emits exactly the n - k + m records not flushed yet, indexed
\* k+1 .. n+m, each record under its own position, and no index in 1 .. k
C5_FlushEmitsUnflushed ==
    [][ FlushedAppend
        => LET p == last'.path
               b == store[p][last'.at]
               k == b.lastSavedIndex + 1
               after == store'[p][last'.at].calls
           IN /\ Len(last'.groups) = Len(after) - k
              /\ \A j \in 1..Len(last'.groups) :
                    /\ last'.groups[j].index = k + j
                    /\ last'.groups[j].url = after[k + j].url ]_vars

\* a flush that caught up: the record left unflushed by the previous settle
\* and the new one, emitted as groups 1 and 2
C5_Witness ==
    /\ last.op = "settle" /\ last.flushed /\ last.at # Detached
    /\ Len(last.groups) = 2
    /\ last.groups[1].index = 1 /\ last.groups[2].index = 2

\* C6, as claimed: for one transaction id, over any sequence of tracked
\* calls, reads, sweeper ticks and clears, a flush emits positional indices
\* in ascending order and never an index already emitted for that id
C6_AsClaimed ==
    [][ last'.op = "settle"
        => \A j \in 1..Len(last'.groups) :
              /\ last'.groups[j].index
                    \notin emitted[last'.path][TxKey(last'.cur)]
              /\ j > 1 => last'.groups[j - 1].index < last'.groups[j].index
      ]_vars

\* the bucket of the flush was flushed by the step before and has received
\* no record since
FlushedTwice ==
    /\ last'.op = "flush" /\ last.op \in {"settle", "flush"}
    /\ last.flushed /\ last.path = last'.path /\ last.at = last'.at
EmptyFlush ==
    /\ last'.op = "flush"
    /\ store[last'.path][last'.at].calls = <<>>

\* C7, as claimed: the second of two flushes in a row, and a flush of an
\* empty bucket, emit no attribute at all and change no state
C7_AsClaimed ==
    [][ (FlushedTwice \/ EmptyFlush)
        => /\ last'.groups = <<>>
           /\ ~last'.rollup.present
           /\ store' = store ]_vars

\* C7, amended: the second of two flushes in a row emits no per-call group
\* and changes no state; only the fetch path emits with it, again, the
\* rollup of the whole bucket, with the values of the first flush; a flush
\* of an empty bucket emits nothing at all
C7_SecondFlushOnlyRollup ==
    [][ /\ FlushedTwice
           => /\ last'.groups = <<>>
              /\ store' = store
              /\ last'.rollup.present = (last'.path = "fetch")
              /\ last'.rollup.present
                   => /\ last.rollup.present
                      /\ last'.rollup.callCount = last.rollup.callCount
                      /\ last'.rollup.totalDuration = last.rollup.totalDuration
                      /\ last'.rollup.failedCount = last.rollup.failedCount
        /\ EmptyFlush
           => /\ last'.groups = <<>>
              /\ ~last'.rollup.present
              /\ store' = store ]_vars

\* a second flush on the fetch path: no group, the rollup once more
C7_Witness ==
    /\ last.op = "flush" /\ last.path = "fetch"
    /\ last.groups = <<>> /\ last.rollup.present
    /\ store["fetch"][last.at].lastSavedIndex
          = Len(store["fetch"][last.at].calls) - 1

\* C8: a sweeper tick at time now removes every bucket with
\* now - lastAccess > TTL and keeps every bucket with now - lastAccess <= TTL
C8_SweepRemovesExactlyExpired ==
    [][ last'.op = "sweep"
        => \A k \in Present(store[last'.path]) :
              LET b == store[last'.path][k] IN
              /\ now - b.lastAccess > TTL => ~store'[last'.path][k].present
              /\ now - b.lastAccess <= TTL => store'[last'.path][k] = b
      ]_vars

\* a tick that removed one bucket and kept another
C8_Witness ==
    /\ last.op = "sweep"
    /\ last.removed # {}
    /\ Present(store[last.path]) # {}

\* C9: with TTL equal to the sweep interval, no bucket is removed by the
\* sweeper before it has been idle for a full interval, and while the
\* sweeper runs no bucket outlives the second tick after its last access
C9_IdleOneToTwoIntervals ==
    /\ TTL = SweepInterval
    /\ last.op = "sweep" => \A r \in last.removed : r.idle >= SweepInterval
    /\ \A p \in Paths : \A k \in Present(store[p]) :
          sweeperOn[p]
          => nextSweep[p] <= store[p][k].lastAccess + 2 * SweepInterval

\* a bucket removed exactly two intervals after its last access
C9_Witness ==
    /\ last.op = "sweep"
    /\ \E r \in last.removed : r.idle = 2 * SweepInterval

\* C10: with no transaction active, a tracked call still performs the
\* underlying call and hands its result or its error to the caller, the
\* store gains no bucket and nothing is emitted
C10_NoTransactionNoTrace ==
    [][ (last'.op = "settle" /\ last'.cur = "none")
        => /\ last'.und.kind \in {"resolve", "reject"}
           /\ Transparent(last')
           /\ \A p \in Paths : Present(store'[p]) = Present(store[p])
           /\ store' = store
           /\ last'.groups = <<>>
           /\ ~last'.rollup.present ]_vars

C10_Witness ==
    /\ last.op = "settle" /\ last.cur = "none" /\ last.path = "fetch"
    /\ last.und.kind = "resolve" /\ last.del.kind = "return"
    /\ \A k \in Keys : ~store["fetch"][k].present


\* C11, as claimed: when the backend reports no transaction, or a transaction
\* that carries no id, the lookup stores nothing: no bucket is ever kept
\* under a missing id
C11_AsClaimed ==
    \A p \in Paths : ~store[p][Undef].present

\* C12, as claimed: in every bucket lastSavedIndex is at least -1 and less
\* than the number of records, and no step decreases it in a bucket that
\* exists before and after the step
C12_AsClaimed ==
    [][ \A p \in Paths : \A k \in Present(store'[p]) :
          /\ store'[p][k].lastSavedIndex >= InitialSavedIndex
          /\ store'[p][k].lastSavedIndex < Len(store'[p][k].calls)
          /\ k \in Present(store[p])
             => store'[p][k].lastSavedIndex >= store[p][k].lastSavedIndex
      ]_vars

\* the record the settle that has just happened appended to a stored bucket
Appended == LET calls == store'[last'.path][last'.at].calls
            IN calls[Len(calls)]

\* C13, as claimed: on both paths the record of a call has success = true
\* exactly when the call produced a response with a status in 200 .. 399
C13_AsClaimed ==
    [][ (last'.op = "settle" /\ last'.at # Detached /\ ~last'.bad)
        => (Appended.success
              <=> /\ last'.und.hasResponse
                  /\ last'.und.status >= 200 /\ last'.und.status <= 399)
      ]_vars

\* C14, as claimed: every stored record has an error field exactly when its
\* success field is false
C14_AsClaimed ==
    \A p \in Paths : \A k \in Present(store[p]) :
       \A i \in 1..Len(store[p][k].calls) :
          (store[p][k].calls[i].error # Absent)
             <=> ~store[p][k].calls[i].success


\* C15, as claimed: a flush that emits ends with lastSavedIndex =
\* len(calls) - 1 although the sink failed, and no record whose emission
\* failed is emitted again by a later flush (every emission of SpecRetry
\* fails, and no bucket of it is ever removed, so a record is its index)
C15_AsClaimed ==
    [][ (last'.op = "settle" /\ last'.flushed)
        => LET p == last'.path
               k == TxKey(last'.cur)
           IN /\ last'.at # Detached
                 => store'[p][k].lastSavedIndex = Len(store'[p][k].calls) - 1
              /\ \A j \in 1..Len(last'.groups) :
                    /\ ~last'.groups[j].accepted
                    /\ last'.groups[j].index \notin emitted[p][k]
      ]_vars


\* C16, as claimed: on the fetch path every flush that emits ends with a
\* rollup computed over the whole bucket: callCount is the number of its
\* records, totalDuration the sum of their durations, failedCount the
\* number of its records with success = false
C16_AsClaimed ==
    [][ (last'.op = "settle" /\ last'.path = "fetch" /\ last'.flushed)
        => LET calls == store'["fetch"][TxKey(last'.cur)].calls
           IN /\ last'.rollup.present
              /\ last'.rollup.callCount = Len(calls)
              /\ last'.rollup.totalDuration = SumDurations(calls)
              /\ last'.rollup.failedCount = FailedCount(calls)
      ]_vars


\* C17, as claimed: a bucket appears only with the first tracked call of its
\* transaction id, and disappears only with a clear or with a sweeper tick
\* that finds now - lastAccess > TTL; no other step, a read in particular,
\* adds or removes an entry, so every stored bucket holds a record
C17_AsClaimed ==
    [][ \A p \in Paths : \A k \in Keys :
          /\ (k \in Present(store'[p]) /\ k \notin Present(store[p]))
             => last'.op = "settle" /\ last'.at = k
          /\ (k \in Present(store[p]) /\ k \notin Present(store'[p]))
             => \/ last'.op = "clear"
                \/ last'.op = "sweep" /\ now - store[p][k].lastAccess > TTL
          /\ k \in Present(store'[p]) => Len(store'[p][k].calls) >= 1
      ]_vars


\* C17, amended: a bucket appears only with a lookup for a transaction id
\* that has none, made by a tracked call or by a read of the getter; it
\* disappears only with a clear or with a sweeper tick that finds
\* now - lastAccess > TTL; a bucket without a record has been empty since a
\* read created it
C17_CreatedByCallOrRead ==
    [][ \A p \in Paths : \A k \in Keys :
          /\ (k \in Present(store'[p]) /\ k \notin Present(store[p]))
             => \/ last'.op = "settle" /\ last'.at = k
                \/ reads' = reads + 1 /\ store'[p][k].calls = <<>>
          /\ (k \in Present(store[p]) /\ k \notin Present(store'[p]))
             => \/ last'.op = "clear"
                \/ last'.op = "sweep" /\ now - store[p][k].lastAccess > TTL
          /\ (k \in Present(store'[p]) /\ store'[p][k].calls = <<>>)
             => \/ reads' = reads + 1
                \/ k \in Present(store[p]) /\ store[p][k].calls = <<>>
      ]_vars

\* a bucket that a read created, never given a record, removed by the sweeper
C17_Witness ==
    /\ last.op = "sweep"
    /\ reads = 1
    /\ \E r \in last.removed : tracked[last.path][r.key] = 0


\* C18: once the stop hook of a module has run its sweeper never ticks
\* again and no bucket of the module is removed for inactivity; the hook
\* itself changes nothing but the timer, and nothing at all when the timer
\* is stopped already
C18_StopIsFinal ==
    [][ /\ \A p \in Paths :
             ~sweeperOn[p]
             => /\ ~sweeperOn'[p]
                /\ ~(last'.op = "sweep" /\ last'.path = p)
                /\ Present(store[p]) \ Present(store'[p]) # {}
                   => last'.op = "clear"
        /\ last'.op = "stop"
           => /\ ~sweeperOn'[last'.path]
              /\ \A q \in Paths \ {last'.path} : sweeperOn'[q] = sweeperOn[q]
              /\ <<store, now, nextSweep, inflight, started, reads, emitted,
                   tracked, epochLog>>'
                   = <<store, now, nextSweep, inflight, started, reads,
                       emitted, tracked, epochLog>>
      ]_vars

\* the timer was stopped, its next tick is overdue, and a bucket idle for
\* longer than the TTL is still stored
C18_Witness ==
    /\ ~sweeperOn[uses]
    /\ now > nextSweep[uses]
    /\ \E k \in Present(store[uses]) : now - store[uses][k].lastAccess > TTL


\* C19: when node-fetch cannot be loaded trackedFetch fails with the
\* configuration error before anything else happens: no call is started or
\* settled, no record is built, no bucket is created or touched, nothing is
\* emitted
C19_UnavailableFailsFirst ==
    [][ (uses = "fetch" /\ ~installed)
        => /\ inflight' = {} /\ started' = 0
           /\ last'.op # "settle"
           /\ \A k \in Keys : /\ store'["fetch"][k].calls = <<>>
                              /\ emitted'["fetch"][k] = {}
           /\ last'.op = "unavailable"
              => /\ store' = store
                 /\ last'.del = Delivered("throw", "config", NoOutcome)
                 /\ last'.groups = <<>>
                 /\ ~last'.rollup.present
      ]_vars

\* trackedFetch has just failed for want of node-fetch, beside a bucket that
\* a read created earlier and that was not touched
C19_Witness ==
    /\ last.op = "unavailable" /\ ~installed
    /\ \E k \in Present(store["fetch"]) : store["fetch"][k].lastAccess < now


\* C20, as claimed: the sequence the getter returns is a read-only snapshot:
\* whatever its holder does with it leaves the stored calls and
\* lastSavedIndex of every bucket unchanged, and a tracked call that settles
\* later does not change the sequence already returned
C20_AsClaimed ==
    [][ /\ last'.op = "mutate" => store' = store
        /\ (last'.op = "settle" /\ handle.ref # "none")
           => ReturnedArray(store'[uses], handle')
                 = ReturnedArray(store[uses], handle)
      ]_vars

\* C21, as claimed: on both paths the method of the record of a call is the
\* upper-cased verb of the call, whatever the letter case the caller
\* supplied, and GET when no method was supplied
C21_AsClaimed ==
    [][ (last'.op = "settle" /\ last'.at # Detached)
        => Appended.method = ToUpperCase(MethodOrGet(last'.method))
      ]_vars

\* the number of handlers module m has registered on a chain of axios
Registered(chain, m) == Cardinality({i \in 1..Len(chain) : chain[i] = m})

\* C22: however often the initializers are called, each registers its
\* interceptors at most once, and isAxiosTracingInitialized() (resp.
\* isAxiosExternalTracingInitialized()) is true exactly when that
\* registration has happened
C22_RegisteredOnce ==
    /\ Registered(interceptors.request, "tracing") <= 1
    /\ Registered(interceptors.response, "tracing") = 0
    /\ IsAxiosTracingInitialized
          <=> Registered(interceptors.request, "tracing") = 1
    /\ Registered(interceptors.request, "external") <= 1
    /\ Registered(interceptors.response, "external") <= 1
    /\ IsAxiosExternalTracingInitialized
          <=> /\ Registered(interceptors.request, "external") = 1
              /\ Registered(interceptors.response, "external") = 1

\* both initializers have been called again after they registered
C22_Witness ==
    /\ Len(initLog["tracing"]) = MaxInits
    /\ Len(initLog["external"]) = MaxInits
    /\ initLog["tracing"][1] = "registered"
    /\ initLog["external"][1] = "registered"
    /\ IsAxiosTracingInitialized /\ IsAxiosExternalTracingInitialized

\* C23: while axios is missing an initializer returns without throwing,
\* registers nothing and leaves its flag false; called once axios is
\* available, it registers
C23_MissingAxiosThenRegisters ==
    [][ last'.op = "init"
        => /\ last'.del.kind = "return"
           /\ ~axiosInstalled
              => /\ interceptors' = interceptors
                 /\ ~IsAxiosTracingInitialized'
                 /\ ~IsAxiosExternalTracingInitialized'
           /\ axiosInstalled
              => /\ last'.path = "tracing" => IsAxiosTracingInitialized'
                 /\ last'.path = "external"
                    => IsAxiosExternalTracingInitialized'
                 /\ Registered(interceptors'.request, last'.path) = 1
      ]_vars

\* each initializer found axios missing and registered when called later
C23_Witness ==
    /\ Len(initLog["tracing"]) >= 2 /\ Len(initLog["external"]) >= 2
    /\ initLog["tracing"][1] = "absent"
    /\ initLog["external"][1] = "absent"
    /\ initLog["tracing"][Len(initLog["tracing"])] = "registered"
    /\ initLog["external"][Len(initLog["external"])] = "registered"
    /\ Registered(interceptors.request, "tracing") = 1
    /\ Registered(interceptors.response, "external") = 1

\* C24, as claimed: there is one bucket per transaction id, and it holds
\* every record tracked for that id, whichever path tracked it
C24_AsClaimed ==
    \A k \in Keys :
       /\ Cardinality({p \in Paths : store[p][k].present}) <= 1
       /\ \A p \in Paths :
             store[p][k].present
             => Len(GetterReturns(p, k))
                  = tracked["fetch"][k] + tracked["axios"][k]

\* the paths the documentation lists as ignored by default
HealthCheckPaths == {"/health", "/healthcheck", "/ping", "/status"}

\* C25, as claimed: the default middleware sends no attributes and sets no
\* transaction name for a request to /health, /healthcheck, /ping or
\* /status, and still calls next(); a request to any other path is tracked
C25_AsClaimed ==
    \A i \in 1..Len(handled) :
       /\ handled[i].next
       /\ handled[i].path \in HealthCheckPaths
          => handled[i].attributes = Absent /\ handled[i].name = Absent
       /\ handled[i].path \notin HealthCheckPaths /\ handled[i].wellFormed
          => /\ handled[i].attributes = handled[i].path
             /\ handled[i].name = handled[i].path

C27_AsClaimed ==
    [][ (last'.op = "settle" /\ last'.cur # "none" /\ ~last'.bad)
        => Len(store'[last'.path][TxKey(last'.cur)].calls)
             = Len(store[last'.path][TxKey(last'.cur)].calls) + 1
      ]_vars

IsPrefix(a, b) == Len(a) <= Len(b) /\ SubSeq(b, 1, Len(a)) = a

\* C28, as claimed: while a bucket stays in the store its calls only grow at
\* the end: what they were before a step is a prefix of what they are after
\* it, so no stored record is changed, reordered or removed
C28_AsClaimed ==
    [][ \A p \in Paths : \A k \in Present(store[p]) \cap Present(store'[p]) :
           IsPrefix(store[p][k].calls, store'[p][k].calls)
      ]_vars

\* every stored bucket of map is fully flushed
FullyFlushed(map) ==
    \A k \in Present(map) : map[k].lastSavedIndex = Len(map[k].calls) - 1

\* the backend reported the same transaction to the append and to the
\* flush of the settle that has just happened: both saw it or neither did
SameTransactionReported ==
    last'.op = "settle" => ((last'.at # Detached) <=> last'.flushed)

\* C29, as claimed: between steps every stored bucket is fully flushed,
\* lastSavedIndex = len(calls) - 1, as long as the backend reports the same
\* transaction to the append and to the flush of each settle
C29_AsClaimed ==
    [][ (FullyFlushed(store[uses]) /\ SameTransactionReported)
        => FullyFlushed(store'[uses])
      ]_vars

C31_OnePassFrame ==
    [][ last'.op = "sweep"
        => LET p == last'.path
               dead == {k \in Present(store[p]) :
                          store[p][k].lastAccess < now - TTL}
           IN /\ Present(store'[p]) = Present(store[p]) \ dead
              /\ \A k \in Keys \ dead : store'[p][k] = store[p][k]
              /\ emitted' = emitted
              /\ last'.groups = <<>> /\ ~last'.rollup.present
      ]_vars

\* one tick has removed two buckets
C31_Witness ==
    /\ last.op = "sweep"
    /\ Cardinality(last.removed) = 2
    /\ Present(store[last.path]) = {}

\* C32: on the axios path the segment is opened and closed before the
\* record is stored, so when opening or closing it throws, tracking does
\* nothing for that call: no bucket changes (no record, lastSavedIndex as it
\* was), nothing is emitted, and the caller still receives the response or
\* the error of the call itself
C32_SegmentFailureNoOp ==
    [][ (last'.op = "settle" /\ last'.path = "axios"
           /\ SegmentThrows(last'.seg))
        => /\ store' = store
           /\ tracked' = tracked
           /\ emitted' = emitted
           /\ last'.groups = <<>> /\ ~last'.flushed
           /\ Transparent(last')
      ]_vars

\* segment.end() threw during the settle of a call of tx1 whose bucket a
\* read had created: the bucket is still empty and unflushed
C32_Witness ==
    /\ last.op = "settle" /\ last.path = "axios" /\ last.seg = "endThrows"
    /\ last.cur = "tx1" /\ last.und.kind = "resolve"
    /\ store["axios"]["tx1"].present
    /\ store["axios"]["tx1"].calls = <<>>
    /\ store["axios"]["tx1"].lastSavedIndex = InitialSavedIndex

\* C33, as claimed: whatever options the calls of initializeObservability
\* carry, at most one request interceptor that inserts the distributed-trace
\* headers is installed, so a request has them inserted once
C33_AsClaimed == HeaderInsertions(interceptors) <= 1

IsSpanCall(x) == x.call = "addCustomSpanAttributes"
SettleEvents == {"commandSucceeded", "commandFailed"}
\* the service calls the step made
NewCalls == SubSeq(spans', Len(spans) + 1, Len(spans'))

\* C34: a commandSucceeded or commandFailed event for a requestId whose
\* command has started and not yet settled makes exactly one span-attribute
\* emission, with db.success true for succeeded and false for failed; such
\* an event for any other requestId emits nothing.
C34_AsClaimed ==
    [][last'.op \in SettleEvents =>
          IF last'.id \in pending
          THEN SelectSeq(NewCalls, IsSpanCall) =
                   <<SpanCall(last'.id, last'.op = "commandSucceeded")>>
          ELSE SelectSeq(NewCalls, IsSpanCall) = <<>>]_vars

\* C35: commandTracking holds exactly the requestIds of the commands that
\* have started and not yet settled.
C35_AsClaimed ==
    {r \in RequestIds : commandTracking[r].present} = pending

Attachments == {i \in 1..Len(registerLog) : registerLog[i].did = "attached"}

\* C36: over any sequence of registerMongoClient calls the three listeners
\* are attached at most once and to one client; a call whose getter returns
\* no client attaches nothing and leaves the monitoring not installed, the
\* first call whose getter returns a client attaches, and every call after
\* it attaches nothing.
C36_AttachedOnce ==
    /\ Len(listeners) \in {0, 3}
    /\ monitoringInstalled <=> Len(listeners) = 3
    /\ \A i, j \in 1..Len(listeners) :
        /\ listeners[i].client = listeners[j].client
        /\ i # j => listeners[i].event # listeners[j].event
    /\ Cardinality(Attachments) <= 1
    /\ \A i \in 1..Len(registerLog) :
        LET before == {j \in Attachments : j < i}
        IN  /\ before # {} => registerLog[i].did = "skipped"
            /\ before = {} /\ registerLog[i].got = "null" =>
                   registerLog[i].did = "noClient"
            /\ before = {} /\ registerLog[i].got \in Clients =>
                   registerLog[i].did = "attached"

C36_Witness ==
    /\ registerLog = <<[got |-> "null", did |-> "noClient"],
                       [got |-> "c1", did |-> "attached"],
                       [got |-> "c2", did |-> "skipped"]>>
    /\ Len(listeners) = 3

\* C37: for every request the middleware calls next exactly once and with
\* no argument, whether or not building the attributes, generating the
\* trace id, adding the attributes or naming the transaction throws.
C37_NextOnce ==
    \A i \in 1..Len(handled) : handled[i].nextCalls = <<Absent>>

C37_Witness ==
    /\ Len(handled) = 2
    /\ ~handled[1].wellFormed /\ handled[1].nextCalls = <<Absent>>
    /\ handled[2].wellFormed /\ handled[2].agentDown
    /\ handled[2].generator = "throws"
    /\ handled[2].nextCalls = <<Absent>>

\* the input keys whose lower-cased name contains a redact key: authToken
SensitiveKeys == {InputKeys[2]}

\* out has '[REDACTED]' wherever a sensitive key of in has a value, at any
\* depth; a property whose value is undefined has no value to replace
RECURSIVE RedactedIn(_, _)
RedactedIn(in, out) ==
    \A i \in 1..Len(in.kv) :
        \/ in.t = "object" /\ in.kv[i].v.t = "undefined"
        \/ \E j \in 1..Len(out.kv) :
            /\ out.kv[j].k = in.kv[i].k
            /\ IF in.kv[i].k \in SensitiveKeys
               THEN out.kv[j].v = Redacted
               ELSE IsContainer(in.kv[i].v) =>
                        RedactedIn(in.kv[i].v, out.kv[j].v)

\* C38: for a JSON-serialisable input the result of scrub has '[REDACTED]'
\* in place of the value of every key, at any nesting depth, whose
\* lower-cased name contains one of the redact keys.
C38_RedactsAtAnyDepth ==
    scrubResult # NotCalled /\ Serialisable(OrEmpty(scrubInput)) =>
        RedactedIn(OrEmpty(scrubInput), scrubResult)

C38_Witness ==
    /\ scrubInput =
           ObjectOf({InputKeys[1]},
               [k \in {InputKeys[1]} |->
                   ObjectOf({InputKeys[1], InputKeys[2]},
                       [j \in {InputKeys[1], InputKeys[2]} |->
                           String("s3cr3t", 6)])])
    /\ scrubResult =
           ObjectOf({InputKeys[1]},
               [k \in {InputKeys[1]} |->
                   ObjectOf({InputKeys[1], InputKeys[2]},
                       [j \in {InputKeys[1], InputKeys[2]} |->
                           IF j = InputKeys[2] THEN Redacted
                           ELSE String("s3cr3t", 6)])])

\* C39: scrub does not modify its argument: the object passed to it is the
\* same before and after the call.
C39_ArgumentUntouched == scrubArg = scrubInput

C39_Witness ==
    /\ scrubResult \notin {NotCalled, scrubInput}
    /\ IsContainer(scrubInput)
    /\ \E i \in 1..Len(scrubInput.kv) :
        /\ scrubInput.kv[i].k \in SensitiveKeys
        /\ scrubInput.kv[i].v.t = "string"
        /\ scrubArg.kv[i].v = scrubInput.kv[i].v

====
